---- MODULE Spec2Model ----
(***************************************************************************)
(* State-machine model of the approvers-repeater component                 *)
(* (src/approvers-repeater.ts): the ordered row collection, the three      *)
(* position-keyed transient maps, the debounced per-row search, the MSAL   *)
(* credential pipeline and the save/notify pipeline.                       *)
(*                                                                         *)
(* Positions are 0-based as in the source; rows is a TLA+ sequence, so the *)
(* row at source position p is rows[p + 1].                                *)
(***************************************************************************)
EXTENDS Integers, Sequences, FiniteSets, TLC

(***************************************************************************)
(* Bounds of the model.                                                    *)
(***************************************************************************)
MaxLen == 2         \* largest collection length (loaded, minRows or maxRows)
MaxEvents == 3      \* handler calls made by the user in one run
MaxReq == 1         \* searches in flight at the same time (beside loadValue's resolve)
MaxSinkTimers == 1  \* pending mirror-sink flush timers that are told apart
MaxBurst == 3       \* keystrokes counted in one burst (observer only)
MaxSignIns == 2     \* loginPopup calls that are told apart (observer only)

(***************************************************************************)
(* Program constants.                                                      *)
(***************************************************************************)
MinChars == 2

Idx == 0 .. (MaxLen - 1)
NoIndex == -1

Min(a, b) == IF a < b THEN a ELSE b

(***************************************************************************)
(* JavaScript values.                                                      *)
(***************************************************************************)
Undef == "undefined"

Keys == {"al@x", "bo@x"}
Approvers == Keys \cup {""}

MkPerson(id, name, email, login) ==
  [id |-> id, displayName |-> name, email |-> email, login |-> login]

UndefSel == MkPerson("undefined", "", "", "")
NullSel == MkPerson("null", "", "", "")

IsPerson(p) == p # UndefSel /\ p # NullSel

\* The directory entry behind a key (the external directory's answer).
DirPerson(k) ==
  IF k = "al@x" THEN MkPerson("1", "Alice", "al@x", "al@x")
  ELSE MkPerson("2", "Bob", "bo@x", "bo@x")

FallbackPersonNull(k) == NullSel

\* The catch branch of loadValue: the raw key in every field.
FallbackPerson(k) == MkPerson(k, k, k, k)

TypedTerms == {"a", "al", "bo"}

\* What the directory may answer to a search: nothing, or the matching entry.
SearchResults(t) ==
  IF t = "al" THEN {<<>>, <<DirPerson("al@x")>>}
  ELSE IF t = "bo" THEN {<<>>, <<DirPerson("bo@x")>>}
  ELSE {<<>>}

SuggUndef == [def |-> FALSE, list |-> <<>>]
Sugg(l) == [def |-> TRUE, list |-> l]

\* x || '' , x || null , x || []
OrEmpty(x) == IF x = Undef THEN "" ELSE x
OrNull(x) == IF x = UndefSel THEN NullSel ELSE x
OrNone(x) == IF x = SuggUndef THEN Sugg(<<>>) ELSE x

EmptyTerms == [i \in Idx |-> Undef]
EmptySelections == [i \in Idx |-> UndefSel]
EmptySuggestions == [i \in Idx |-> SuggUndef]

(***************************************************************************)
(* Rows and their serialized forms.  A JSON text is kept as its format and *)
(* the array it denotes: JSON.stringify(rows) is the compact text,         *)
(* JSON.stringify(rows, null, 2) the pretty one, and two texts are the     *)
(* same string only if both the format and the array agree.                *)
(***************************************************************************)
MkRow(o, k) == [order |-> o, approver |-> k]

Stringify(rs) == [fmt |-> "compact", rows |-> rs]
StringifyPretty(rs) == [fmt |-> "pretty", rows |-> rs]

EmptyText == [fmt |-> "empty", rows |-> <<>>]
InvalidText == [fmt |-> "invalid", rows |-> <<>>]
NonArrayText == [fmt |-> "nonarray", rows |-> <<>>]
NoText == [fmt |-> "none", rows |-> <<>>]

\* JSON.parse(value || '[]') with the catch and the Array.isArray test.
ParseRows(v) == IF v.fmt \in {"compact", "pretty"} THEN v.rows ELSE <<>>

RenumberOrdersSkip(rs) == rs

renumberOrders(rs) == [p \in 1 .. Len(rs) |-> MkRow(p, rs[p].approver)]

\* rows.splice(index, 1)
Splice(rs, index) ==
  IF index + 1 > Len(rs) THEN rs
  ELSE SubSeq(rs, 1, index) \o SubSeq(rs, index + 2, Len(rs))

SwapRows(rs, i, j) ==
  [p \in 1 .. Len(rs) |->
    IF p = i + 1 THEN rs[j + 1] ELSE IF p = j + 1 THEN rs[i + 1] ELSE rs[p]]

SwapAtOneWay(f, i, j) == [f EXCEPT ![i] = f[j]]

SwapAt(f, i, j) == [f EXCEPT ![i] = f[j], ![j] = f[i]]

RECURSIVE PushUntil(_, _)
\* while (rows.length < minRows) rows.push({order: rows.length + 1, approver: ''})
PushUntil(rs, n) ==
  IF Len(rs) < n THEN PushUntil(Append(rs, MkRow(Len(rs) + 1, "")), n) ELSE rs

(***************************************************************************)
(* State.                                                                  *)
(***************************************************************************)
VARIABLES
  config,          \* designer-set properties and the host's mode signal
  value,           \* the bound value (this.value)
  rows,            \* this.rows
  terms,           \* this.terms        (position -> string)
  selections,      \* this.selections   (position -> Person | null)
  suggestions,     \* this.suggestions  (position -> Person[])
  activeRowIndex,  \* this.activeRowIndex (NoIndex for null)
  errorMsg,        \* this.errorMsg: "", "search" or "lookup"
  displayMode,     \* this.displayMode
  phase,           \* "constructed", "loading" (loadValue awaiting) or "ready"
  timers,          \* pending debounce timers, oldest first
  reqs,            \* directory requests in flight (slot 0: loadValue's resolve)
  msal,            \* this.msal: "none", "initializing", "ready" or "failed"
  account,         \* this.account is set
  libAccount,      \* the identity library holds an active or cached account
  dom,             \* value of the input element rendered at each position
  sinkValue,       \* text of the mirror sink
  sinkTimers,      \* pending 100 ms flushes of the mirror sink
  lastOp,          \* observer: the handler or continuation that ran last
  saves,           \* observer: the saveValue calls the last step made
  burst,           \* observer: the current keystroke burst of one row
  events,          \* observer: handler calls made by the user so far
  signIns          \* observer: loginPopup calls made so far

vars == <<config, value, rows, terms, selections, suggestions, activeRowIndex,
          errorMsg, displayMode, phase, timers, reqs, msal, account,
          libAccount, dom, sinkValue, sinkTimers, lastOp, saves, burst,
          events, signIns>>

Slots == 0 .. MaxReq
SearchSlots == 1 .. MaxReq

\* kind: "none", "search" or "load"; pc: the call the request awaits ("init",
\* "login", "silent", "tokenPopup", "fetch"); index: the position captured by
\* the closure; term: the search term or the key to resolve; pos: where the row
\* object it was issued for now sits; gone: that row's key when it was removed.
\* Observers: stale (a newer keystroke reached the row after the dispatch),
\* signIn (the request opened the sign-in prompt).
NoReq == [kind |-> "none", pc |-> "none", index |-> NoIndex, term |-> "",
          pos |-> NoIndex, gone |-> Undef, stale |-> FALSE, signIn |-> FALSE]

NoBurst == [row |-> NoIndex, n |-> 0, term |-> "", calls |-> 0, callTerm |-> ""]

Op(name, index) == [op |-> name, index |-> index]

(***************************************************************************)
(* Persisted values and configurations the component may be given.         *)
(***************************************************************************)
RECURSIVE SeqsUpTo(_, _)
SeqsUpTo(S, n) ==
  IF n = 0 THEN {<<>>}
  ELSE LET shorter == SeqsUpTo(S, n - 1)
       IN shorter \cup {Append(q, x) : q \in {t \in shorter : Len(t) = n - 1}, x \in S}

(***************************************************************************)
(* saveValue (lines 324-384).                                              *)
(***************************************************************************)
ValueChangedAlways(old, new) == TRUE

\* this.value !== newValue
ValueChanged(old, new) == old # new

\* if (this.jsonTargetId) { target.value = jsonValue; setTimeout(...) }
SinkWritten(changed) == config.sink

\* One call of saveValue in editable mode on rows rs with bound value v.
SaveCall(v, rs) ==
  LET changed == ValueChanged(v, Stringify(rs))
  IN [changed |-> changed, val |-> Stringify(rs), sink |-> SinkWritten(changed)]

SavedValueKept(v, rs) == v

\* The bound value after saveValue.
SavedValue(v, rs) == IF ValueChanged(v, Stringify(rs)) THEN Stringify(rs) ELSE v

SinkWrites(ss) == Cardinality({k \in 1 .. Len(ss) : ss[k].sink})

SinkValueAfter(ss, rs) == IF SinkWrites(ss) > 0 THEN StringifyPretty(rs) ELSE sinkValue

SinkTimersAfter(ss) == Min(sinkTimers + SinkWrites(ss), MaxSinkTimers)

(***************************************************************************)
(* ensureMinRows (lines 386-395): the rows it leaves.                      *)
(***************************************************************************)
ensureMinRowsNoFill(rs) == rs

ensureMinRows(rs) == PushUntil(rs, config.minRows)

(***************************************************************************)
(* The input elements.  The template binds each row's input to             *)
(* terms[index] ?? (sel?.displayName || '') (line 716), one element per    *)
(* position, none in display mode; an update commits the bindings.  A      *)
(* timer's closure keeps its element t and reads t.value when it fires     *)
(* (line 525).                                                             *)
(***************************************************************************)
NoDom == [i \in Idx |-> Undef]

RenderedDom(dm, rs, tm, sel) ==
  [i \in Idx |->
    IF dm \/ i >= Len(rs) THEN Undef
    ELSE IF tm[i] # Undef THEN tm[i]
    ELSE IF IsPerson(sel[i]) THEN sel[i].displayName ELSE ""]

\* The step ends with a reactive update (a state assignment or requestUpdate).
Rerender == dom' = RenderedDom(displayMode', rows', terms', selections')

\* The same when the step reached a state assignment or requestUpdate at all.
RerenderIf(updated) == IF updated THEN Rerender ELSE dom' = dom

\* An update that leaves newLen rows removes the inputs beyond them; a removed
\* element keeps the value it had.
DetachTimers(ts, newLen) ==
  [k \in 1 .. Len(ts) |->
    IF ts[k].det = Undef /\ ts[k].index >= newLen
    THEN [ts[k] EXCEPT !.det = dom[ts[k].index]] ELSE ts[k]]

ClearTimeoutForgotten(ts) == ts

\* clearTimeout(this.debounceTimer): cancels the timer the handle names.
ClearTimeout(ts) == IF ts = <<>> THEN <<>> ELSE SubSeq(ts, 1, Len(ts) - 1)

(***************************************************************************)
(* Where the row object a request was issued for now sits.                 *)
(***************************************************************************)
TrackRemove(q, index) ==
  IF q.kind = "none" \/ q.pos = NoIndex THEN q
  ELSE IF q.pos = index
       THEN [q EXCEPT !.pos = NoIndex, !.gone = rows[index + 1].approver]
  ELSE IF q.pos > index THEN [q EXCEPT !.pos = q.pos - 1]
  ELSE q

TrackSwap(q, i, j) ==
  IF q.pos = i THEN [q EXCEPT !.pos = j]
  ELSE IF q.pos = j THEN [q EXCEPT !.pos = i]
  ELSE q

\* row.approver of the row object loadValue captured.
RowApprover(q) == IF q.pos # NoIndex THEN rows[q.pos + 1].approver ELSE q.gone

(***************************************************************************)
(* Credential pipeline (lines 407-445) up to its first suspension.         *)
(***************************************************************************)
ClientIdMissingNever == FALSE

\* ensureMsal throws before any await: no client yet and no clientId.
ClientIdMissing == msal = "none" /\ ~config.clientId

\* ensureMsal, then the account lookup of ensureAccount.  A caller that finds
\* this.msal set returns from ensureMsal at once, initialized or not.
StartAuth ==
  IF msal = "none"
  THEN [pc |-> "init", msal |-> "initializing", account |-> account]
  ELSE [pc |-> IF libAccount THEN "silent" ELSE "login", msal |-> msal,
        account |-> libAccount]

\* Observer: the requests that called loginPopup in this step (line 428).
NewSignIns ==
  Cardinality({r \in Slots :
    /\ reqs'[r].signIn
    /\ ~reqs[r].signIn \/ reqs'[r].index # reqs[r].index})

CountSignIns == signIns' = Min(signIns + NewSignIns, MaxSignIns)

NewReq(kind, index, term) ==
  [kind |-> kind, pc |-> StartAuth.pc, index |-> index, term |-> term,
   pos |-> index, gone |-> Undef, stale |-> FALSE,
   signIn |-> (StartAuth.pc = "login")]

(***************************************************************************)
(* loadValue (lines 285-322).                                              *)
(***************************************************************************)
isDisplayModeNever == FALSE

\* The mode signal: forceEditable, form mode, edit button, URL, readonly.
isDisplayMode == config.readOnly

NextLoadIdxLast(rs, i) ==
  LET c == {j \in i .. (Len(rs) - 1) : rs[j + 1].approver # ""}
  IN IF c = {} THEN NoIndex ELSE CHOOSE j \in c : \A k \in c : j >= k

\* The next position >= i whose row has a key (the for-of loop's next await).
NextLoadIdx(rs, i) ==
  LET c == {j \in i .. (Len(rs) - 1) : rs[j + 1].approver # ""}
  IN IF c = {} THEN NoIndex ELSE CHOOSE j \in c : \A k \in c : j <= k

\* The loop from position i on, up to its next suspension: with no clientId
\* every resolve fails without suspending and each keyed row gets the fallback.
LoadFrom(i, rs, tm, sel, err) ==
  LET j == NextLoadIdx(rs, i)
      keyed(p) == p >= j /\ p < Len(rs) /\ rs[p + 1].approver # ""
  IN IF j = NoIndex
     THEN [terms |-> tm, selections |-> sel, errorMsg |-> err, req |-> NoReq,
           phase |-> "ready", msal |-> msal, account |-> account]
     ELSE IF ClientIdMissing
     THEN [terms |-> [p \in Idx |-> IF keyed(p) THEN rs[p + 1].approver ELSE tm[p]],
           selections |->
             [p \in Idx |-> IF keyed(p) THEN FallbackPerson(rs[p + 1].approver)
                            ELSE sel[p]],
           errorMsg |-> "lookup", req |-> NoReq, phase |-> "ready",
           msal |-> msal, account |-> account]
     ELSE [terms |-> tm, selections |-> sel, errorMsg |-> err,
           req |-> NewReq("load", j, rs[j + 1].approver), phase |-> "loading",
           msal |-> StartAuth.msal, account |-> StartAuth.account]

\* firstUpdated (lines 266-271): reads the mode signal, then loadValue.
FirstUpdated ==
  /\ phase = "constructed"
  /\ LET dm == isDisplayMode
         rs0 == renumberOrders(ParseRows(value))
         rs1 == IF dm THEN rs0 ELSE ensureMinRows(rs0)
         ss == IF dm THEN <<>> ELSE <<SaveCall(value, rs1)>>
         ld == LoadFrom(0, rs1, EmptyTerms, EmptySelections, errorMsg)
     IN /\ displayMode' = dm
        /\ rows' = rs1
        /\ value' = IF dm THEN value ELSE SavedValue(value, rs1)
        /\ saves' = ss
        /\ sinkValue' = SinkValueAfter(ss, rs1)
        /\ sinkTimers' = SinkTimersAfter(ss)
        /\ terms' = ld.terms
        /\ selections' = ld.selections
        /\ suggestions' = EmptySuggestions
        /\ errorMsg' = ld.errorMsg
        /\ reqs' = [reqs EXCEPT ![0] = ld.req]
        /\ phase' = ld.phase
        /\ msal' = ld.msal
        /\ account' = ld.account
  /\ lastOp' = Op("loadValue", NoIndex)
  /\ UNCHANGED <<config, activeRowIndex, timers, libAccount, burst, events>>
  /\ Rerender
  /\ CountSignIns

(***************************************************************************)
(* Row operations (lines 570-649).  A handler called in display mode only  *)
(* logs and returns.                                                       *)
(***************************************************************************)
Started == phase # "constructed"

\* One more handler call by the user.
UserEvent == events < MaxEvents /\ events' = events + 1

\* What a step leaves alone when it touches neither the credential state nor
\* the requests in flight.
AuthUnchanged == UNCHANGED <<msal, account, libAccount, signIns>>

\* The handler made the saveValue calls ss and left the rows rs.
Saved(ss, rs) ==
  /\ saves' = ss
  /\ sinkValue' = SinkValueAfter(ss, rs)
  /\ sinkTimers' = SinkTimersAfter(ss)

NothingSaved == saves' = <<>> /\ UNCHANGED <<value, sinkValue, sinkTimers>>

AtMaxRowsNever(rs) == FALSE

\* this.rows.length >= this.maxRows
AtMaxRows(rs) == Len(rs) >= config.maxRows

addRow ==
  /\ Started
  /\ UserEvent
  /\ lastOp' = Op("addRow", NoIndex)
  /\ burst' = NoBurst
  /\ IF displayMode \/ AtMaxRows(rows)
     THEN /\ NothingSaved
          /\ UNCHANGED <<rows, timers>>
     ELSE LET rs == Append(rows, MkRow(Len(rows) + 1, ""))
          IN /\ rows' = rs
             /\ value' = SavedValue(value, rs)
             /\ Saved(<<SaveCall(value, rs)>>, rs)
             /\ timers' = timers
  /\ AuthUnchanged
  /\ UNCHANGED <<config, terms, selections, suggestions, activeRowIndex,
                 errorMsg, displayMode, phase, reqs>>
  /\ RerenderIf(~(displayMode \/ AtMaxRows(rows)))

RemapIdxSame(i, index) == i

\* i >= index ? i + 1 : i
RemapIdx(i, index) == IF i >= index THEN i + 1 ELSE i

removeRow(index) ==
  /\ Started
  /\ UserEvent
  /\ index < Len(rows)
  /\ lastOp' = Op("removeRow", index)
  /\ burst' = NoBurst
  /\ IF displayMode
     THEN /\ NothingSaved
          /\ UNCHANGED <<rows, terms, selections, suggestions, timers, reqs>>
     ELSE LET rs1 == renumberOrders(Splice(rows, index))
              n1 == Len(rs1)
              v1 == SavedValue(value, rs1)
              rs2 == ensureMinRows(rs1)
              ss == <<SaveCall(value, rs1), SaveCall(v1, rs2)>>
          IN /\ rows' = rs2
             /\ terms' = [i \in Idx |->
                  IF i < n1 THEN OrEmpty(terms[RemapIdx(i, index)]) ELSE Undef]
             /\ selections' = [i \in Idx |->
                  IF i < n1 THEN OrNull(selections[RemapIdx(i, index)]) ELSE UndefSel]
             /\ suggestions' = [i \in Idx |->
                  IF i < n1 THEN OrNone(suggestions[RemapIdx(i, index)]) ELSE SuggUndef]
             /\ value' = SavedValue(v1, rs2)
             /\ Saved(ss, rs2)
             /\ timers' = DetachTimers(timers, Len(rs2))
             /\ reqs' = [r \in Slots |-> TrackRemove(reqs[r], index)]
  /\ AuthUnchanged
  /\ UNCHANGED <<config, activeRowIndex, errorMsg, displayMode, phase>>
  /\ Rerender

\* The body shared by moveUp (j = index - 1) and moveDown (j = index + 1).
SwapAndSave(index, j) ==
  LET rs == renumberOrders(SwapRows(rows, index, j))
  IN /\ rows' = rs
     /\ terms' = SwapAt(terms, index, j)
     /\ selections' = SwapAt(selections, index, j)
     /\ suggestions' = SwapAt(suggestions, index, j)
     /\ value' = SavedValue(value, rs)
     /\ Saved(<<SaveCall(value, rs)>>, rs)
     /\ reqs' = [r \in Slots |-> TrackSwap(reqs[r], index, j)]

moveUp(index) ==
  /\ Started
  /\ UserEvent
  /\ index < Len(rows)
  /\ lastOp' = Op("moveUp", index)
  /\ burst' = NoBurst
  /\ IF displayMode \/ index <= 0
     THEN /\ NothingSaved
          /\ UNCHANGED <<rows, terms, selections, suggestions, reqs>>
     ELSE SwapAndSave(index, index - 1)
  /\ AuthUnchanged
  /\ UNCHANGED <<config, activeRowIndex, errorMsg, displayMode, phase, timers>>
  /\ RerenderIf(~(displayMode \/ index <= 0))

moveDown(index) ==
  /\ Started
  /\ UserEvent
  /\ index < Len(rows)
  /\ lastOp' = Op("moveDown", index)
  /\ burst' = NoBurst
  /\ IF displayMode \/ index >= Len(rows) - 1
     THEN /\ NothingSaved
          /\ UNCHANGED <<rows, terms, selections, suggestions, reqs>>
     ELSE SwapAndSave(index, index + 1)
  /\ AuthUnchanged
  /\ UNCHANGED <<config, activeRowIndex, errorMsg, displayMode, phase, timers>>
  /\ RerenderIf(~(displayMode \/ index >= Len(rows) - 1))

(***************************************************************************)
(* Picker handlers (lines 540-567).  In editable mode the dropdown option  *)
(* exists only for the active row's suggestions, the clear button only on  *)
(* a row that shows a selection.                                           *)
(***************************************************************************)
SetApprover(rs, index, k) == [rs EXCEPT ![index + 1].approver = k]

onPick(index, p) ==
  /\ Started
  /\ UserEvent
  /\ index < Len(rows)
  /\ displayMode \/ (activeRowIndex = index
                      /\ \E k \in 1 .. Len(suggestions[index].list) :
                           suggestions[index].list[k] = p)
  /\ lastOp' = Op("onPick", index)
  /\ burst' = NoBurst
  /\ IF displayMode
     THEN /\ NothingSaved
          /\ UNCHANGED <<rows, terms, selections, suggestions, activeRowIndex>>
     ELSE LET rs == SetApprover(rows, index, p.login)
          IN /\ selections' = [selections EXCEPT ![index] = p]
             /\ terms' = [terms EXCEPT ![index] = p.displayName]
             /\ rows' = rs
             /\ value' = SavedValue(value, rs)
             /\ Saved(<<SaveCall(value, rs)>>, rs)
             /\ suggestions' = [suggestions EXCEPT ![index] = SuggUndef]
             /\ activeRowIndex' = NoIndex
  /\ AuthUnchanged
  /\ UNCHANGED <<config, errorMsg, displayMode, phase, timers, reqs>>
  /\ Rerender

clearRow(index) ==
  /\ Started
  /\ UserEvent
  /\ index < Len(rows)
  /\ displayMode \/ IsPerson(selections[index])
  /\ lastOp' = Op("clearRow", index)
  /\ burst' = NoBurst
  /\ IF displayMode
     THEN /\ NothingSaved
          /\ UNCHANGED <<rows, terms, selections>>
     ELSE LET rs == SetApprover(rows, index, "")
          IN /\ selections' = [selections EXCEPT ![index] = NullSel]
             /\ terms' = [terms EXCEPT ![index] = ""]
             /\ rows' = rs
             /\ value' = SavedValue(value, rs)
             /\ Saved(<<SaveCall(value, rs)>>, rs)
  /\ AuthUnchanged
  /\ UNCHANGED <<config, suggestions, activeRowIndex, errorMsg, displayMode,
                 phase, timers, reqs>>
  /\ Rerender

\* render (lines 698-701): an editable collection found empty is refilled.
render ==
  /\ Started
  /\ ~displayMode
  /\ Len(rows) = 0
  /\ LET rs == ensureMinRows(rows)
     IN /\ rows' = rs
        /\ value' = SavedValue(value, rs)
        /\ Saved(<<SaveCall(value, rs)>>, rs)
  /\ lastOp' = Op("render", NoIndex)
  /\ AuthUnchanged
  /\ UNCHANGED <<config, terms, selections, suggestions, activeRowIndex,
                 errorMsg, displayMode, phase, timers, reqs, burst, events>>
  /\ Rerender

\* ensureMinRows called on its own (lines 386-395).
ensureMinRowsCalled ==
  /\ Started
  /\ UserEvent
  /\ IF displayMode
     THEN /\ NothingSaved
          /\ UNCHANGED rows
     ELSE LET rs == ensureMinRows(rows)
          IN /\ rows' = rs
             /\ value' = SavedValue(value, rs)
             /\ Saved(<<SaveCall(value, rs)>>, rs)
  /\ lastOp' = Op("ensureMinRows", NoIndex)
  /\ AuthUnchanged
  /\ UNCHANGED <<config, terms, selections, suggestions, activeRowIndex,
                 errorMsg, displayMode, phase, timers, reqs, burst>>
  /\ RerenderIf(~displayMode)

\* saveValue called on its own (lines 324-384).
saveValue ==
  /\ Started
  /\ UserEvent
  /\ IF displayMode
     THEN NothingSaved
     ELSE /\ value' = SavedValue(value, rows)
          /\ Saved(<<SaveCall(value, rows)>>, rows)
  /\ lastOp' = Op("saveValue", NoIndex)
  /\ AuthUnchanged
  /\ UNCHANGED <<config, rows, terms, selections, suggestions, activeRowIndex,
                 errorMsg, displayMode, phase, timers, reqs, burst>>
  /\ RerenderIf(~displayMode /\ ValueChanged(value, Stringify(rows)))

(***************************************************************************)
(* onRowInput (lines 505-538) and the debounce timer's callback.           *)
(***************************************************************************)
\* Observer: a newer keystroke reached the row a search was dispatched for.
MarkStale(q, index) ==
  IF q.kind = "search" /\ q.pos = index THEN [q EXCEPT !.stale = TRUE] ELSE q

\* Observer: keystrokes at or above the threshold arriving on one row while its
\* timer is pending form one burst.
BurstAfterInput(index, v) ==
  IF Len(v) < MinChars THEN NoBurst
  ELSE IF burst.row = index /\ burst.calls = 0
  THEN [burst EXCEPT !.n = Min(burst.n + 1, MaxBurst), !.term = v]
  ELSE [row |-> index, n |-> 1, term |-> v, calls |-> 0, callTerm |-> ""]

BurstAfterCall(index, term) ==
  IF burst.row = index
  THEN [burst EXCEPT !.calls = Min(burst.calls + 1, 2), !.callTerm = term]
  ELSE burst

onRowInput(index, v) ==
  /\ Started
  /\ UserEvent
  /\ index < Len(rows)
  /\ lastOp' = Op("onRowInput", index)
  /\ IF displayMode
     THEN /\ burst' = NoBurst
          /\ UNCHANGED <<terms, suggestions, activeRowIndex, errorMsg, timers, reqs>>
     ELSE /\ terms' = [terms EXCEPT ![index] = v]
          /\ activeRowIndex' = index
          /\ errorMsg' = ""
          /\ IF Len(v) < MinChars
             THEN /\ timers' = ClearTimeout(timers)
                  /\ suggestions' = [suggestions EXCEPT ![index] = SuggUndef]
             ELSE /\ timers' = Append(ClearTimeout(timers),
                                      [index |-> index, det |-> Undef])
                  /\ suggestions' = suggestions
          /\ reqs' = [r \in Slots |-> MarkStale(reqs[r], index)]
          /\ burst' = BurstAfterInput(index, v)
  /\ NothingSaved
  /\ AuthUnchanged
  /\ UNCHANGED <<config, rows, selections, displayMode, phase>>
  /\ Rerender

FreeSlot(r) ==
  /\ r \in SearchSlots
  /\ reqs[r].kind = "none"
  /\ \A k \in SearchSlots : k < r => reqs[k].kind # "none"

\* The timeout callback: graphSearch(t.value) up to its first suspension.
timerFired ==
  /\ timers # <<>>
  /\ \E r \in SearchSlots : FreeSlot(r)
  /\ LET t == Head(timers)
         term == IF t.det # Undef THEN t.det ELSE dom[t.index]
         r == CHOOSE k \in SearchSlots : FreeSlot(k)
     IN /\ timers' = Tail(timers)
        /\ burst' = BurstAfterCall(t.index, term)
        /\ lastOp' = Op("timerFired", t.index)
        /\ IF displayMode
           THEN /\ suggestions' = [suggestions EXCEPT ![t.index] = Sugg(<<>>)]
                /\ UNCHANGED <<errorMsg, reqs, msal, account>>
           ELSE IF ClientIdMissing
           THEN /\ suggestions' = [suggestions EXCEPT ![t.index] = SuggUndef]
                /\ errorMsg' = "search"
                /\ UNCHANGED <<reqs, msal, account>>
           ELSE /\ reqs' = [reqs EXCEPT ![r] = NewReq("search", t.index, term)]
                /\ msal' = StartAuth.msal
                /\ account' = StartAuth.account
                /\ UNCHANGED <<suggestions, errorMsg>>
  /\ NothingSaved
  /\ UNCHANGED <<config, rows, terms, selections, activeRowIndex, displayMode,
                 phase, libAccount, events>>
  /\ Rerender
  /\ CountSignIns

(***************************************************************************)
(* Continuations of the requests in flight: each awaited library or        *)
(* network call resolves or rejects.                                       *)
(***************************************************************************)
\* The request in slot r ends: a search writes its row's suggestions (lines
\* 526-535), a resolve writes selections and terms of its position and
\* loadValue goes on with the next keyed row (lines 306-316).
Finish(r, ok, results) ==
  LET q == reqs[r]
  IN IF q.kind = "search"
     THEN /\ suggestions' = [suggestions EXCEPT
                               ![q.index] = IF ok THEN Sugg(results) ELSE SuggUndef]
          /\ errorMsg' = IF ok THEN errorMsg ELSE "search"
          /\ reqs' = [reqs EXCEPT ![r] = NoReq]
          /\ lastOp' = Op(IF ok THEN "searchApplied" ELSE "searchFailed", q.index)
          /\ UNCHANGED <<terms, selections, phase, msal, account>>
          /\ Rerender
     ELSE LET user == DirPerson(q.term)
              key == RowApprover(q)
              tm == [terms EXCEPT ![q.index] = IF ok THEN user.displayName ELSE key]
              sel == [selections EXCEPT
                        ![q.index] = IF ok THEN user ELSE FallbackPerson(key)]
              err == IF ok THEN errorMsg ELSE "lookup"
              ld == LoadFrom(q.index + 1, rows, tm, sel, err)
          IN /\ terms' = ld.terms
             /\ selections' = ld.selections
             /\ errorMsg' = ld.errorMsg
             /\ reqs' = [reqs EXCEPT ![r] = ld.req]
             /\ phase' = ld.phase
             /\ msal' = ld.msal
             /\ account' = ld.account
             /\ lastOp' = Op(IF ok THEN "resolveApplied" ELSE "resolveFailed", q.index)
             /\ UNCHANGED suggestions
             /\ RerenderIf(ld.phase = "ready" \/ ld.errorMsg # errorMsg)

AsyncFrame ==
  /\ NothingSaved
  /\ UNCHANGED <<config, rows, activeRowIndex, displayMode, timers, burst, events>>

\* msal.initialize() and handleRedirectPromise() settle (lines 417-420); a
\* failure is logged and the caller goes on to the account lookup.
initSettled(r, ok) ==
  /\ reqs[r].pc = "init"
  /\ msal' = IF ok THEN "ready" ELSE "failed"
  /\ account' = libAccount
  /\ reqs' = [reqs EXCEPT ![r].pc = IF libAccount THEN "silent" ELSE "login",
                          ![r].signIn = ~libAccount]
  /\ lastOp' = Op("initSettled", reqs[r].index)
  /\ AsyncFrame
  /\ UNCHANGED <<terms, selections, suggestions, errorMsg, phase, libAccount, dom>>
  /\ CountSignIns

\* msal.loginPopup settles (lines 428-431).
loginSettled(r, ok) ==
  /\ reqs[r].pc = "login"
  /\ AsyncFrame
  /\ IF ok
     THEN /\ account' = TRUE
          /\ libAccount' = TRUE
          /\ reqs' = [reqs EXCEPT ![r].pc = "silent"]
          /\ lastOp' = Op("loginDone", reqs[r].index)
          /\ UNCHANGED <<terms, selections, suggestions, errorMsg, phase, msal, dom>>
     ELSE /\ UNCHANGED libAccount
          /\ Finish(r, FALSE, <<>>)
  /\ CountSignIns

AfterSilentAlwaysPopup(ok) == "tokenPopup"

\* try { acquireTokenSilent } catch { acquireTokenPopup }: the next call.
AfterSilent(ok) == IF ok THEN "fetch" ELSE "tokenPopup"

\* msal.acquireTokenSilent settles (lines 438-443): on rejection the catch
\* calls acquireTokenPopup.
silentSettled(r, ok) ==
  /\ reqs[r].pc = "silent"
  /\ reqs' = [reqs EXCEPT ![r].pc = AfterSilent(ok)]
  /\ lastOp' = Op(IF ok THEN "silentDone" ELSE "silentFailed", reqs[r].index)
  /\ AsyncFrame
  /\ UNCHANGED <<terms, selections, suggestions, errorMsg, phase, msal, account,
                 libAccount, dom>>
  /\ CountSignIns

\* msal.acquireTokenPopup settles (line 443).
tokenPopupSettled(r, ok) ==
  /\ reqs[r].pc = "tokenPopup"
  /\ AsyncFrame
  /\ UNCHANGED libAccount
  /\ IF ok
     THEN /\ reqs' = [reqs EXCEPT ![r].pc = "fetch"]
          /\ lastOp' = Op("tokenPopupDone", reqs[r].index)
          /\ UNCHANGED <<terms, selections, suggestions, errorMsg, phase, msal,
                         account, dom>>
     ELSE Finish(r, FALSE, <<>>)
  /\ CountSignIns

\* fetch and res.json() settle (lines 453-464, 480-500).
fetchSettled(r, ok, results) ==
  /\ reqs[r].pc = "fetch"
  /\ results \in SearchResults(reqs[r].term)
  /\ ok \/ results = <<>>
  /\ AsyncFrame
  /\ UNCHANGED libAccount
  /\ Finish(r, ok, results)
  /\ CountSignIns

\* The mirror sink's 100 ms timeout (lines 349-366): focus, the synthetic
\* input/change notifications, blur.
sinkFlush ==
  /\ sinkTimers > 0
  /\ sinkTimers' = sinkTimers - 1
  /\ lastOp' = Op("sinkFlush", NoIndex)
  /\ saves' = <<>>
  /\ UNCHANGED <<config, value, rows, terms, selections, suggestions,
                 activeRowIndex, errorMsg, displayMode, phase, timers, reqs, msal,
                 account, libAccount, dom, sinkValue, burst, events, signIns>>

(***************************************************************************)
(* The component after construction (field initializers, lines 59-86),     *)
(* given a configuration, a bound value and the library's session cache.   *)
(***************************************************************************)
InitWith(C, V, A) ==
  /\ config \in C
  /\ value \in V
  /\ libAccount \in A
  /\ rows = <<>>
  /\ terms = EmptyTerms
  /\ selections = EmptySelections
  /\ suggestions = EmptySuggestions
  /\ activeRowIndex = NoIndex
  /\ errorMsg = ""
  /\ displayMode = TRUE
  /\ phase = "constructed"
  /\ timers = <<>>
  /\ reqs = [r \in Slots |-> NoReq]
  /\ msal = "none"
  /\ account = FALSE
  /\ dom = NoDom
  /\ sinkValue = NoText
  /\ sinkTimers = 0
  /\ lastOp = Op("constructor", NoIndex)
  /\ saves = <<>>
  /\ burst = NoBurst
  /\ events = 0
  /\ signIns = 0

(***************************************************************************)
(* Specifications.  Each closes the component with one environment: the    *)
(* configurations and stored values it is given, what the user does and    *)
(* how the library and the directory answer.                               *)
(***************************************************************************)
Found(k) == <<DirPerson(k)>>

(* The editing session: two stored rows with stale order fields, one of    *)
(* them keyed, a signed-in session, every handler, calls that may fail.    *)
EditConfig ==
  [minRows |-> 1, maxRows |-> MaxLen, sink |-> FALSE, clientId |-> TRUE,
   readOnly |-> FALSE]

EditValues == {Stringify(<<MkRow(2, "al@x"), MkRow(2, "")>>)}

Init == InitWith({EditConfig}, EditValues, {TRUE})

Next ==
  \/ FirstUpdated
  \/ addRow
  \/ \E index \in Idx : removeRow(index)
  \/ \E index \in Idx : moveUp(index)
  \/ \E index \in Idx : moveDown(index)
  \/ \E index \in Idx : clearRow(index)
  \/ \E index \in Idx, k \in Keys : onPick(index, DirPerson(k))
  \/ \E index \in Idx, v \in TypedTerms : onRowInput(index, v)
  \/ timerFired
  \/ \E r \in Slots, ok \in BOOLEAN : initSettled(r, ok)
  \/ \E r \in Slots, ok \in BOOLEAN : silentSettled(r, ok)
  \/ \E r \in Slots, ok \in BOOLEAN : tokenPopupSettled(r, ok)
  \/ \E r \in Slots, ok \in BOOLEAN, k \in Keys : fetchSettled(r, ok, Found(k))
  \/ \E r \in Slots, ok \in BOOLEAN : fetchSettled(r, ok, <<>>)

Spec == Init /\ [][Next]_vars

(* Rows and persistence: every configuration and stored text, display and  *)
(* editable mode, no typing.                                               *)
RowsConfigs ==
  [minRows : 0 .. MaxLen, maxRows : 1 .. MaxLen, sink : BOOLEAN,
   clientId : BOOLEAN, readOnly : BOOLEAN]

\* Stored rows: stale or duplicated order fields, with and without a key.
StoredRows == {MkRow(o, k) : o \in {1, 2}, k \in {"", "al@x"}}

RowsValues ==
  {EmptyText, InvalidText, NonArrayText}
    \cup {Stringify(rs) : rs \in SeqsUpTo(StoredRows, MaxLen)}
    \cup {StringifyPretty(rs) : rs \in SeqsUpTo(StoredRows, 1)}

InitRows == InitWith(RowsConfigs, RowsValues, {TRUE})

NextRows ==
  \/ FirstUpdated
  \/ addRow
  \/ \E index \in Idx : removeRow(index)
  \/ \E index \in Idx : moveUp(index)
  \/ \E index \in Idx : moveDown(index)
  \/ \E index \in Idx : clearRow(index)
  \/ render
  \/ saveValue
  \/ sinkFlush
  \/ \E r \in Slots, ok \in BOOLEAN : initSettled(r, ok)
  \/ \E r \in Slots, ok \in BOOLEAN : silentSettled(r, ok)
  \/ \E r \in Slots, ok \in BOOLEAN : tokenPopupSettled(r, ok)
  \/ \E r \in Slots, ok \in BOOLEAN : fetchSettled(r, ok, <<>>)

SpecRows == InitRows /\ [][NextRows]_vars

(* Credentials: no account or a cached one, with or without a clientId, a  *)
(* keyed row to resolve while the user types.                              *)
AuthConfigs ==
  {[EditConfig EXCEPT !.clientId = c] : c \in BOOLEAN}

AuthValues == {Stringify(<<MkRow(1, "al@x"), MkRow(2, "bo@x")>>)}

InitAuth == InitWith(AuthConfigs, AuthValues, BOOLEAN)

NextAuth ==
  \/ FirstUpdated
  \/ \E index \in Idx : onRowInput(index, "al")
  \/ timerFired
  \/ \E r \in Slots, ok \in BOOLEAN : initSettled(r, ok)
  \/ \E r \in Slots, ok \in BOOLEAN : loginSettled(r, ok)
  \/ \E r \in Slots, ok \in BOOLEAN : silentSettled(r, ok)
  \/ \E r \in Slots, ok \in BOOLEAN : tokenPopupSettled(r, ok)
  \/ \E r \in Slots, ok \in BOOLEAN, k \in Keys : fetchSettled(r, ok, Found(k))
  \/ \E r \in Slots, ok \in BOOLEAN : fetchSettled(r, ok, <<>>)

SpecAuth == InitAuth /\ [][NextAuth]_vars

(* Read-only mode: every configuration and stored text under a read-only   *)
(* mode signal, every handler the user or the host may call.               *)
ReadOnlyConfigs == {c \in RowsConfigs : c.readOnly}

InitReadOnly == InitWith(ReadOnlyConfigs, RowsValues, {TRUE})

NextReadOnly ==
  \/ FirstUpdated
  \/ addRow
  \/ \E index \in Idx : removeRow(index)
  \/ \E index \in Idx : moveUp(index)
  \/ \E index \in Idx : moveDown(index)
  \/ \E index \in Idx : clearRow(index)
  \/ \E index \in Idx, k \in Keys : onPick(index, DirPerson(k))
  \/ \E index \in Idx, v \in TypedTerms : onRowInput(index, v)
  \/ ensureMinRowsCalled
  \/ saveValue
  \/ \E r \in Slots, ok \in BOOLEAN : initSettled(r, ok)
  \/ \E r \in Slots, ok \in BOOLEAN : silentSettled(r, ok)
  \/ \E r \in Slots, ok \in BOOLEAN : tokenPopupSettled(r, ok)
  \/ \E r \in Slots, ok \in BOOLEAN : fetchSettled(r, ok, <<>>)

SpecReadOnly == InitReadOnly /\ [][NextReadOnly]_vars

(***************************************************************************)
(* Properties.                                                             *)
(***************************************************************************)
\* The three transient entries of position i.
Triple(tm, sel, sg, i) == <<tm[i], sel[i], sg[i]>>

\* Position i carries a term, a selection and a suggestion list of its own.
Tagged(i) == terms[i] # Undef /\ selections[i] # UndefSel /\ suggestions[i] # SuggUndef

\* C1: once loaded, whatever handlers have run since, the row at 0-based
\* position p has order p + 1, so the orders of N rows are exactly 1..N.
C1_Renumbered ==
  Started =>
    /\ \A p \in 1 .. Len(rows) : rows[p].order = p
    /\ {rows[p].order : p \in 1 .. Len(rows)} = 1 .. Len(rows)

\* Two rows were exchanged and the stale stored orders are gone.
C1_Witness ==
  /\ lastOp.op = "moveDown"
  /\ Len(rows) = 2
  /\ rows[1].approver = ""
  /\ rows[2].approver = "al@x"
  /\ rows[2].order = 2

\* C2: the term, selection and suggestions of a row travel with it.  After an
\* editable removeRow(index) a surviving position i holds the row and the
\* tagged content that were at i when i < index and at i + 1 otherwise; an
\* editable move exchanges the two rows together with their three entries
\* and leaves every other position as it was.
C2_TransientTravels ==
  [][ /\ \A index \in Idx :
          (removeRow(index) /\ ~displayMode) =>
            \A i \in 0 .. (Len(rows) - 2) :
              LET src == IF i < index THEN i ELSE i + 1
              IN /\ rows'[i + 1].approver = rows[src + 1].approver
                 /\ Tagged(src) =>
                      Triple(terms', selections', suggestions', i)
                        = Triple(terms, selections, suggestions, src)
      /\ \A index \in Idx :
          \A j \in {index - 1, index + 1} :
            ( /\ ~displayMode
              /\ j \in 0 .. (Len(rows) - 1)
              /\ IF j < index THEN moveUp(index) ELSE moveDown(index) ) =>
              \A i \in 0 .. (Len(rows) - 1) :
                LET src == IF i = index THEN j ELSE IF i = j THEN index ELSE i
                IN /\ rows'[i + 1].approver = rows[src + 1].approver
                   /\ Triple(terms', selections', suggestions', i)
                        = Triple(terms, selections, suggestions, src)
    ]_vars

\* The resolved, typed-in and searched row was moved down and the row above it
\* removed: position 0 now holds that row with its three entries.
C2_Witness ==
  /\ lastOp = Op("removeRow", 0)
  /\ Len(rows) = 1
  /\ rows[1].approver = "al@x"
  /\ terms[0] = "al"
  /\ selections[0] = DirPerson("al@x")
  /\ suggestions[0] = Sugg(Found("al@x"))

\* C3: the answer to a search is not written into its row's suggestions once
\* a newer keystroke has reached that row after the dispatch.
C3_StaleDiscarded ==
  [][ \A r \in SearchSlots :
        ( /\ reqs[r].kind = "search"
          /\ reqs[r].stale
          /\ reqs'[r].kind = "none" ) =>
          suggestions'[reqs[r].index] = suggestions[reqs[r].index]
    ]_vars

\* C4: of the credential requests started before any account exists, at most
\* one calls the sign-in prompt.
C4_OneSignIn ==
  Cardinality({r \in Slots : reqs[r].kind # "none" /\ reqs[r].signIn}) <= 1

\* C5: at most one request is inside an interactive prompt call (sign-in
\* popup or token popup) at any time.
C5_OnePromptInFlight ==
  Cardinality({r \in Slots : reqs[r].pc \in {"login", "tokenPopup"}}) <= 1

\* C6: a burst of keystrokes at or above the threshold on one row, nothing
\* else typed or clicked in between, leads to exactly one search call, made
\* with the term of the last keystroke: until the call the row's timer is the
\* only one pending, and the one call there is carries that term.
C6_Debounce ==
  burst.row # NoIndex =>
    /\ burst.calls <= 1
    /\ burst.calls = 0 =>
         /\ Len(timers) = 1
         /\ timers[1].index = burst.row
    /\ burst.calls = 1 =>
         /\ burst.callTerm = burst.term
         /\ timers = <<>>

\* C7: a keystroke in one row leaves the pending timer of every other row
\* pending.
C7_PerRowDebounce ==
  [][ \A index \in Idx, v \in TypedTerms :
        (onRowInput(index, v) /\ ~displayMode) =>
          \A k \in 1 .. Len(timers) :
            timers[k].index # index =>
              \E j \in 1 .. Len(timers') : timers'[j] = timers[k]
    ]_vars

\* C8: of two saveValue calls with the same rows the second notifies nobody
\* and leaves the bound value alone, be they two calls of saveValue in a row
\* or the two calls one handler makes; a call notifies exactly when the
\* serialized rows differ from the bound value.
C8_IdempotentSave ==
  [][ /\ (saveValue /\ ~displayMode) =>
          /\ saves'[1].changed <=> (value # Stringify(rows))
          /\ value' = Stringify(rows)
      /\ (lastOp.op = "saveValue" /\ saveValue) =>
          /\ \A k \in 1 .. Len(saves') : ~saves'[k].changed
          /\ value' = value
      /\ \A k \in 2 .. Len(saves') :
          saves'[k].val = saves'[k - 1].val => ~saves'[k].changed
    ]_vars

\* removeRow saved twice without a row pushed in between: the first call
\* notified the host, the second did not.
C8_Witness ==
  /\ lastOp.op = "removeRow"
  /\ Len(saves) = 2
  /\ saves[1].val = saves[2].val
  /\ saves[1].changed
  /\ ~saves[2].changed
  /\ value = Stringify(rows)

\* C9: a saveValue call writes the mirror sink only when the serialized rows
\* differ from the bound value.
C9_SinkOnlyOnChange ==
  \A k \in 1 .. Len(saves) : saves[k].sink => saves[k].changed

\* C10: in editable mode, once loaded, minRows <= length <= maxRows.
C10_Bounds ==
  (Started /\ ~displayMode) =>
    /\ config.minRows <= Len(rows)
    /\ Len(rows) <= config.maxRows

\* C11: an editable addRow below maxRows appends exactly the row
\* {order: N + 1, approver: ""}; at or above maxRows it changes neither rows,
\* terms, selections, suggestions nor the bound value, saves nothing and
\* raises no error.
C11_AddRow ==
  [][ (addRow /\ ~displayMode) =>
        IF Len(rows) < config.maxRows
        THEN /\ rows' = Append(rows, MkRow(Len(rows) + 1, ""))
             /\ UNCHANGED <<terms, selections, suggestions>>
        ELSE /\ UNCHANGED <<rows, terms, selections, suggestions, value,
                            sinkValue, sinkTimers, errorMsg>>
             /\ saves' = <<>>
    ]_vars

\* addRow was called on a full editable collection.
C11_Witness ==
  /\ lastOp.op = "addRow"
  /\ ~displayMode
  /\ Len(rows) = config.maxRows
  /\ config.minRows < config.maxRows
  /\ saves = <<>>

\* C12: an editable removeRow(index) leaves the previous rows without the one
\* at index, in their order and renumbered from 1, followed by only the empty
\* rows needed to reach minRows: nothing is appended when enough rows remain.
C12_RemoveRow ==
  [][ \A index \in Idx :
        (removeRow(index) /\ ~displayMode) =>
          LET kept == Len(rows) - 1
          IN /\ Len(rows') = IF kept < config.minRows THEN config.minRows ELSE kept
             /\ \A p \in 1 .. Len(rows') :
                  rows'[p] =
                    IF p <= kept
                    THEN MkRow(p, rows[IF p - 1 < index THEN p ELSE p + 1].approver)
                    ELSE MkRow(p, "")
    ]_vars

\* The first of two rows was removed with minRows = 1: the keyed second row is
\* now row 1 and nothing was appended.
C12_Witness ==
  /\ lastOp = Op("removeRow", 0)
  /\ ~displayMode
  /\ config.minRows = 1
  /\ rows = <<MkRow(1, "al@x")>>
  /\ Len(saves) = 2
  /\ ~saves[2].changed

\* C13: while the mode signal is read-only, a call of addRow, removeRow,
\* moveUp, moveDown, onPick, clearRow, onRowInput, ensureMinRows or saveValue
\* leaves rows, terms, selections, suggestions and the bound value as they
\* were, notifies nobody, writes nothing to the mirror sink and neither
\* schedules nor issues a search.
C13_ReadOnlyInert ==
  [][ (config.readOnly /\ events' # events) =>
        /\ UNCHANGED <<rows, terms, selections, suggestions, value, sinkValue,
                       sinkTimers, timers, reqs, msal>>
        /\ saves' = <<>>
    ]_vars

\* A read-only collection over maxRows with a sink configured, after a
\* removeRow call and as many handler calls as a run makes: nothing moved.
C13_Witness ==
  /\ config.readOnly
  /\ displayMode
  /\ config.sink
  /\ lastOp.op = "removeRow"
  /\ events = MaxEvents
  /\ Len(rows) = 2
  /\ sinkValue = NoText
  /\ value = Stringify(<<MkRow(2, "al@x"), MkRow(2, "")>>)

C15_SilentFirst ==
  [][ \A r \in Slots :
        /\ (reqs'[r].pc = "tokenPopup" /\ reqs[r].pc # "tokenPopup") =>
              /\ reqs[r].pc = "silent"
              /\ silentSettled(r, FALSE)
        /\ silentSettled(r, TRUE) => reqs'[r].pc = "fetch"
        /\ (reqs'[r].pc = "fetch" /\ reqs[r].pc # "fetch") =>
              reqs[r].pc \in {"silent", "tokenPopup"}
    ]_vars

\* A search went through a failed silent attempt into the token prompt.
C15_Witness ==
  /\ lastOp.op = "silentFailed"
  /\ \E r \in SearchSlots :
       /\ reqs[r].kind = "search"
       /\ reqs[r].pc = "tokenPopup"
       /\ lastOp.index = reqs[r].index

\* C16: over the life of the component the sign-in prompt is opened at most
\* once, also after an earlier sign-in attempt failed or was cancelled.
C16_SignInOnce == signIns <= 1

\* The error a row shows: the component keeps one message and renders it
\* once, under all rows.
RowError(j) == errorMsg

\* A request starts in slot r in this step.
Starts(r) ==
  /\ reqs'[r].kind # "none"
  /\ reqs[r].kind = "none" \/ reqs'[r].index # reqs[r].index

\* C17: a failed search for row i clears row i's suggestions and leaves the
\* suggestions and the error state of every other row as they were.
C17_SearchFailureRowScoped ==
  [][ \A r \in SearchSlots :
        (reqs[r].kind = "search" /\ lastOp'.op = "searchFailed"
           /\ reqs'[r].kind = "none") =>
          LET i == reqs[r].index
          IN /\ suggestions'[i] = SuggUndef
             /\ \A j \in Idx :
                  (j # i /\ j < Len(rows)) =>
                    /\ suggestions'[j] = suggestions[j]
                    /\ RowError(j)' = RowError(j)
    ]_vars

\* C18: when the resolve of row i's key fails, row i's selection is the
\* Person made of the raw key, the advisory message is set, and loadValue goes
\* on with the next keyed row or completes; while it is loading a resolve is
\* in flight, so it completes once the calls it awaits settle.
C18_LookupFallback ==
  [][ /\ \A r \in Slots :
          (reqs[r].kind = "load" /\ lastOp'.op = "resolveFailed"
             /\ lastOp'.index = reqs[r].index) =>
            LET i == reqs[r].index
                key == rows[i + 1].approver
                later == {j \in Idx : j > i /\ j < Len(rows) /\ rows[j + 1].approver # ""}
            IN /\ selections'[i] = MkPerson(key, key, key, key)
               /\ terms'[i] = key
               /\ errorMsg' = "lookup"
               /\ IF later = {}
                  THEN phase' = "ready" /\ reqs'[r].kind = "none"
                  ELSE /\ phase' = "loading"
                       /\ reqs'[r].kind = "load"
                       /\ reqs'[r].index \in later
                       /\ \A j \in later : reqs'[r].index <= j
      /\ (FirstUpdated /\ ~config.clientId) =>
            /\ phase' = "ready"
            /\ \A p \in 1 .. Len(rows') :
                 rows'[p].approver # "" =>
                   LET key == rows'[p].approver
                   IN /\ selections'[p - 1] = MkPerson(key, key, key, key)
                      /\ errorMsg' = "lookup"
      /\ phase' = "loading" => reqs'[0].kind = "load"
    ]_vars

\* Row 0's resolve failed and row 1's then succeeded.
C18_Witness ==
  /\ lastOp = Op("resolveApplied", 1)
  /\ phase = "ready"
  /\ selections[0] = MkPerson("al@x", "al@x", "al@x", "al@x")
  /\ selections[1] = DirPerson("bo@x")

\* C19: with no clientId no auth client is ever constructed and no sign-in,
\* token or directory call is ever pending; a search ends at once with the
\* advisory message and no suggestions, loadValue completes at once.
C19_NoClientId ==
  ~config.clientId =>
    /\ msal = "none"
    /\ signIns = 0
    /\ \A r \in Slots : reqs[r] = NoReq
    /\ lastOp.op = "timerFired" =>
         /\ errorMsg = "search"
         /\ suggestions[lastOp.index] = SuggUndef
    /\ lastOp.op = "loadValue" =>
         /\ phase = "ready"
         /\ (\E p \in 1 .. Len(rows) : rows[p].approver # "") => errorMsg = "lookup"

\* A search was attempted without a clientId.
C19_Witness ==
  /\ ~config.clientId
  /\ lastOp.op = "timerFired"
  /\ errorMsg = "search"
  /\ msal = "none"

\* C20: a request that starts after the client's initialization failed
\* constructs and initializes a new client.
C20_ClientRecreated ==
  [][ \A r \in Slots :
        (msal = "failed" /\ Starts(r)) =>
          /\ msal' = "initializing"
          /\ reqs'[r].pc = "init"
    ]_vars

\* The load-time resolves in flight.
Loads == {r \in Slots : reqs[r].kind = "load"}

\* C21: load-time resolves run one at a time in row order: at most one is in
\* flight, the one for row j is in flight only when every keyed row before j
\* has its selection, and a completion for row i is followed by a resolve of
\* a later row or by the end of the load.
C21_SequentialLoad ==
  [][ /\ Cardinality(Loads') <= 1
      /\ \A r \in Slots :
          reqs'[r].kind = "load" =>
            \A i \in 0 .. (reqs'[r].index - 1) :
              rows'[i + 1].approver # "" => IsPerson(selections'[i])
      /\ \A r \in Slots :
          (reqs[r].kind = "load"
             /\ lastOp'.op \in {"resolveApplied", "resolveFailed"}) =>
            /\ lastOp'.index = reqs[r].index
            /\ reqs'[r].kind = "load" => reqs'[r].index > reqs[r].index
            /\ reqs'[r].kind = "none" => phase' = "ready"
    ]_vars

\* Row 0 is resolved and the resolve of row 1 is in flight.
C21_Witness ==
  /\ phase = "loading"
  /\ reqs[0].kind = "load"
  /\ reqs[0].index = 1
  /\ reqs[0].pc = "fetch"
  /\ selections[0] = DirPerson("al@x")
  /\ selections[1] = UndefSel

\* C22: the answer or the failure of a search whose row has left the position
\* it was issued for does not change the list of suggestions shown at that
\* position.
C22_SearchFollowsRow ==
  [][ \A r \in SearchSlots :
        ( /\ reqs[r].kind = "search"
          /\ reqs[r].pos # reqs[r].index
          /\ reqs'[r].kind = "none" ) =>
          OrNone(suggestions'[reqs[r].index]) = OrNone(suggestions[reqs[r].index])
    ]_vars

\* C23: every selection that is a person sits at the position of the row
\* whose key it was resolved or picked for.
C23_SelectionOnOwnRow ==
  \A i \in Idx :
    (i < Len(rows) /\ IsPerson(selections[i])) =>
      selections[i].login = rows[i + 1].approver

\* C24: in editable mode, once loaded, the bound value is the compact
\* serialization of the rows after every handler.
C24_ValueTracksRows ==
  (Started /\ ~displayMode) => value = Stringify(rows)

\* A person was picked for the second row and the value follows.
C24_Witness ==
  /\ lastOp = Op("onPick", 1)
  /\ ~displayMode
  /\ Len(rows) = 2
  /\ rows[2].approver = "bo@x"
  /\ value = Stringify(<<MkRow(1, "al@x"), MkRow(2, "bo@x")>>)

\* C25: every value a saveValue call notifies the host of has at least
\* minRows rows.
C25_EmittedWithinBounds ==
  \A k \in 1 .. Len(saves) :
    saves[k].changed => Len(saves[k].val.rows) >= config.minRows

\* C26: an editable move inside the collection keeps the length and the keys,
\* exchanges the two adjacent rows with their term, selection and
\* suggestions and leaves every other position alone, and the opposite move
\* made from the state it leaves gives back rows, terms, selections and
\* suggestions; a move at the boundary changes nothing and saves nothing.
C26_Moves ==
  [][ \A index \in Idx :
        \A j \in {index - 1, index + 1} :
          ( /\ ~displayMode
            /\ index < Len(rows)
            /\ IF j < index THEN moveUp(index) ELSE moveDown(index) ) =>
            IF j \in 0 .. (Len(rows) - 1)
            THEN /\ Len(rows') = Len(rows)
                 /\ \A k \in Approvers :
                      Cardinality({p \in 1 .. Len(rows) : rows'[p].approver = k})
                        = Cardinality({p \in 1 .. Len(rows) : rows[p].approver = k})
                 /\ \A i \in 0 .. (Len(rows) - 1) :
                      LET src == IF i = index THEN j ELSE IF i = j THEN index ELSE i
                      IN /\ rows'[i + 1] = MkRow(i + 1, rows[src + 1].approver)
                         /\ Triple(terms', selections', suggestions', i)
                              = Triple(terms, selections, suggestions, src)
                 /\ renumberOrders(SwapRows(rows', j, index)) = rows
                 /\ SwapAt(terms', j, index) = terms
                 /\ SwapAt(selections', j, index) = selections
                 /\ SwapAt(suggestions', j, index) = suggestions
            ELSE /\ UNCHANGED <<rows, terms, selections, suggestions, value>>
                 /\ saves' = <<>>
    ]_vars

\* The typed-in and searched second row was moved up above the resolved one.
C26_Witness ==
  /\ lastOp = Op("moveUp", 1)
  /\ rows = <<MkRow(1, ""), MkRow(2, "al@x")>>
  /\ terms[0] = "al"
  /\ suggestions[0] = Sugg(Found("al@x"))
  /\ selections[1] = DirPerson("al@x")

====
